---- MODULE Spec2Model ----
(***************************************************************************)
(* Model of the FastAPI authentication tutorial service:                   *)
(*   src/database.py   - the users table (unique username, unique email)   *)
(*   src/auth_utils.py - password hashing, create_user, authenticate_user  *)
(*   src/jwt_utils.py  - token issuance and verification                   *)
(*   src/main.py       - the /signup, /login, /me and /admin handlers      *)
(*                                                                         *)
(* Handlers are sync "def" endpoints, which FastAPI runs on a thread pool, *)
(* so requests interleave at their database statements and clock reads.    *)
(* Time is counted in whole minutes.                                       *)
(***************************************************************************)
EXTENDS Integers, Sequences, FiniteSets, TLC

VARIABLES
    db,        \* rows of the users table
    nextId,    \* next value of the users.id sequence
    sp,        \* per worker: the /signup request it is serving
    clock,     \* datetime.utcnow(), in minutes
    ticks,     \* how many times the clock has advanced
    lg,        \* the /login request being served
    held,      \* the access token the client got from its last login
    req,       \* the protected request (/me or /admin) being served
    tok,       \* token library: the last token create_access_token returned
    ver        \* token library: the last result of verify_token

vars == <<db, nextId, sp, clock, ticks, lg, held, req, tok, ver>>

----------------------------------------------------------------------------
(* Bounds of the model *)

NumProcs == 2
MaxId == 2
MaxTicks == 2

(* Program constants *)

ACCESS_TOKEN_EXPIRE_MINUTES == 30

SECRET_KEY == "your-super-secret-key-change-in-production"
ALGORITHM == "HS256"
ISSUER == "fastapi-jwt-issuer"

\* Python's None
None == [type |-> "NoneType"]

Procs == 1..NumProcs

(* Request bodies the clients send to /signup: <<username, email, password>>. *)
(* SignupRequest declares three plain str fields, so the empty username is  *)
(* accepted.                                                                *)
SignupInputs ==
    { <<"alice", "a@x.io", "pw1">>,
      <<"alice", "b@x.io", "pw2">>,
      <<"bob",   "a@x.io", "pw1">>,
      <<"",      "c@x.io", "pw1">> }

Usernames == { i[1] : i \in SignupInputs }
Salts == {"s1", "s2"}

----------------------------------------------------------------------------
(* PasswordHasher: src/auth_utils.py *)

\* bcrypt's digest of a password under a salt: opaque, never the plaintext
Digest(salt, password) == <<salt, password>>

\* pwd_context.hash(password): a fresh random salt is embedded in the hash
hash_password(password, salt) ==
    [scheme |-> "bcrypt", salt |-> salt, digest |-> Digest(salt, password)]

\* stored values that are no bcrypt hash: the empty string, and a string in
\* a format the CryptContext (schemes=["bcrypt"]) does not know
MalformedHashes ==
    { [scheme |-> "", salt |-> "", digest |-> <<"", "">>],
      [scheme |-> "md5", salt |-> "", digest |-> <<"", "legacy">>] }

\* pwd_context.verify raises UnknownHashError when it cannot identify the
\* hash; verify_password has no try/except, so the exception leaves it
verify_password_raises(plain_password, hashed_password) ==
    hashed_password.scheme # "bcrypt"

\* pwd_context.verify(plain, hashed): recompute under the embedded salt
verify_password_any(plain_password, hashed_password) ==
    hashed_password.scheme = "bcrypt"

verify_password(plain_password, hashed_password) ==
    /\ hashed_password.scheme = "bcrypt"
    /\ hashed_password.digest = Digest(hashed_password.salt, plain_password)

----------------------------------------------------------------------------
(* UserRepository: the users table of src/database.py *)

\* User(...) as create_user builds it; is_active takes the column default
NewUserAsAdmin(id, username, email, hashed_password, is_admin) ==
    [id |-> id, username |-> username, email |-> email,
     hashed_password |-> hashed_password, is_active |-> TRUE,
     is_admin |-> TRUE]

NewUser(id, username, email, hashed_password, is_admin) ==
    [id |-> id, username |-> username, email |-> email,
     hashed_password |-> hashed_password, is_active |-> TRUE,
     is_admin |-> is_admin]

\* db.query(User).filter((User.username == u) | (User.email == e))
QueryByUsernameOrEmail(rows, username, email) ==
    { r \in rows : r.username = username \/ r.email = email }

\* db.query(User).filter(User.username == username)
QueryByUsername(rows, username) ==
    { r \in rows : r.username = username }

\* unique=True on username and on email: the INSERT is refused on a collision
UniqueViolationUnenforced(rows, username, email) == FALSE

UniqueViolation(rows, username, email) ==
    \E r \in rows : r.username = username \/ r.email = email

\* get_user_by_username: .first(), or None
get_user_by_username(rows, username) ==
    IF QueryByUsername(rows, username) = {}
    THEN None
    ELSE CHOOSE r \in QueryByUsername(rows, username) : TRUE

----------------------------------------------------------------------------
(* TokenIssuer and TokenVerifier: src/jwt_utils.py *)

\* dict.get(key): the value, or None when the key is absent
HasKey(d, k) == k \in DOMAIN d

\* HMAC of the header and payload under a key
Sign(key, alg, payload) == <<key, alg, payload>>

\* jwt.encode(claims, key, algorithm): header, payload and signature
jwt_encode(payload, key, alg) ==
    [alg |-> alg, payload |-> payload, sig |-> Sign(key, alg, payload)]

\* a string that is not three base64 segments
RawToken(text) == [raw |-> text]

\* Python truthiness of expires_delta: None and timedelta(0) are both falsy
Truthy(expires_delta) ==
    expires_delta # None /\ expires_delta.minutes # 0

\* create_access_token(data, expires_delta) with utcnow() = now
create_access_token(data, expires_delta, now) ==
    LET expire == IF Truthy(expires_delta)
                  THEN now + expires_delta.minutes
                  ELSE now + ACCESS_TOKEN_EXPIRE_MINUTES
        to_encode == [k \in DOMAIN data \cup {"exp"} |->
                        IF k = "exp" THEN expire ELSE data[k]]
    IN jwt_encode(to_encode, SECRET_KEY, ALGORITHM)

\* the token_data dict of create_token_for_user, its utcnow() = iat
token_data_admin_dropped(username, is_admin, iat) ==
    [sub |-> username, admin |-> FALSE, iat |-> iat, iss |-> ISSUER]

token_data(username, is_admin, iat) ==
    [sub |-> username, admin |-> is_admin, iat |-> iat, iss |-> ISSUER]

\* create_token_for_user: iat and exp come from two reads of the clock
create_token_for_user(username, is_admin, iat, now) ==
    create_access_token(token_data(username, is_admin, iat), None, now)

\* jose's expiry rule: ExpiredSignatureError when exp < now
ExpiredAt(exp, now) == exp < now

\* jwt.decode(token, SECRET_KEY, algorithms=[ALGORITHM]) with utcnow() = now:
\* the reason of the JWTError it raises, or "ok"
jwt_decode_error_unverified(token, now) ==
    IF HasKey(token, "raw") THEN "MalformedToken"
    ELSE IF HasKey(token.payload, "exp") /\ ExpiredAt(token.payload.exp, now)
         THEN "Expired"
    ELSE "ok"

jwt_decode_error(token, now) ==
    IF HasKey(token, "raw") THEN "MalformedToken"
    ELSE IF token.alg \notin {ALGORITHM} THEN "SignatureInvalid"
    ELSE IF token.sig # Sign(SECRET_KEY, token.alg, token.payload)
         THEN "SignatureInvalid"
    ELSE IF HasKey(token.payload, "exp") /\ ExpiredAt(token.payload.exp, now)
         THEN "Expired"
    ELSE "ok"

\* what verify_token prints before returning None, or "ok"
verify_reason(token, now) ==
    IF jwt_decode_error(token, now) # "ok" THEN jwt_decode_error(token, now)
    ELSE IF ~HasKey(token.payload, "sub") THEN "MissingSubject"
    ELSE "ok"

\* verify_token(token): the payload, or None
verify_token(token, now) ==
    IF verify_reason(token, now) = "ok" THEN token.payload ELSE None

\* what a client can make of a token without the secret key
Variants(token) ==
    IF HasKey(token, "raw") THEN {token}
    ELSE { token,
           \* the signature segment altered
           [token EXCEPT !.sig = <<"tampered">>],
           \* the payload edited to claim admin, the signature kept
           [token EXCEPT !.payload =
               [k \in DOMAIN token.payload |->
                   IF k = "admin" THEN TRUE ELSE token.payload[k]],
              !.sig = IF HasKey(token.payload, "admin") /\ token.payload.admin
                      THEN <<"tampered">> ELSE token.sig],
           \* signed with another key
           jwt_encode(token.payload, "attacker-key", token.alg),
           \* declaring another algorithm
           [token EXCEPT !.alg = "none", !.sig = <<>>],
           \* not a token at all
           RawToken("xyz"), RawToken("") }

----------------------------------------------------------------------------
(* HTTP responses of /signup *)

SignupCreated(user) ==
    [status |-> 200, detail |-> "Account created successfully",
     user_id |-> user.id, username |-> user.username, email |-> user.email]

\* HTTPException(400, str(ValueError)): DuplicateCredential
SignupDuplicate ==
    [status |-> 400, detail |-> "User with this username or email already exists"]

\* an exception no handler catches: the server answers 500
InternalServerError ==
    [status |-> 500, detail |-> "Internal Server Error"]

SpIdle == [pc |-> "idle"]

----------------------------------------------------------------------------
(* POST /signup: signup -> create_user *)

\* the existence check of create_user, first half of the handler
ExistingUserCheckUsernameOnly(rows, username, email) ==
    QueryByUsername(rows, username)

ExistingUserCheck(rows, username, email) ==
    QueryByUsernameOrEmail(rows, username, email)

\* create_user up to the hashing: query, raise ValueError if a row matches
SignupQuery(p, in, salt) ==
    /\ sp[p].pc = "idle"
    /\ IF ExistingUserCheck(db, in[1], in[2]) # {}
       THEN sp' = [sp EXCEPT ![p] =
                     [pc |-> "done", in |-> in, result |-> SignupDuplicate]]
       ELSE sp' = [sp EXCEPT ![p] =
                     [pc |-> "hashed", in |-> in,
                      hashed |-> hash_password(in[3], salt)]]
    /\ UNCHANGED <<db, nextId, clock, ticks, lg, held, req, tok, ver>>

\* db.add, db.commit, db.refresh and the response; the commit raises
\* IntegrityError on a unique violation, which signup does not catch
SignupCommit(p) ==
    /\ sp[p].pc = "hashed"
    /\ LET in == sp[p].in
           user == NewUser(nextId, in[1], in[2], sp[p].hashed, FALSE)
       IN IF UniqueViolation(db, in[1], in[2])
          THEN /\ sp' = [sp EXCEPT ![p] =
                          [pc |-> "done", in |-> in,
                           result |-> InternalServerError]]
               /\ UNCHANGED <<db, nextId>>
          ELSE /\ nextId <= MaxId
               /\ db' = db \cup {user}
               /\ nextId' = nextId + 1
               /\ sp' = [sp EXCEPT ![p] =
                          [pc |-> "done", in |-> in,
                           result |-> SignupCreated(user)]]
    /\ UNCHANGED <<clock, ticks, lg, held, req, tok, ver>>

\* the response is delivered; the worker takes the next request
SignupReturn(p) ==
    /\ sp[p].pc = "done"
    /\ sp' = [sp EXCEPT ![p] = SpIdle]
    /\ UNCHANGED <<db, nextId, clock, ticks, lg, held, req, tok, ver>>

----------------------------------------------------------------------------
(* Rows changed from outside the service: the users table is an ordinary    *)
(* PostgreSQL table, and the service itself never sets is_admin or deletes. *)

\* UPDATE users SET is_admin = flag WHERE username = u (promotion, revocation)
EnvSetAdmin(username, flag) ==
    /\ \E r \in db : r.username = username /\ r.is_admin # flag
    /\ db' = { IF r.username = username THEN [r EXCEPT !.is_admin = flag] ELSE r
               : r \in db }
    /\ UNCHANGED <<nextId, sp, clock, ticks, lg, held, req, tok, ver>>

\* UPDATE users SET is_active = flag WHERE username = u (deactivation)
EnvSetActive(username, flag) ==
    /\ \E r \in db : r.username = username /\ r.is_active # flag
    /\ db' = { IF r.username = username THEN [r EXCEPT !.is_active = flag] ELSE r
               : r \in db }
    /\ UNCHANGED <<nextId, sp, clock, ticks, lg, held, req, tok, ver>>

\* DELETE FROM users WHERE username = u
EnvDeleteUser(username) ==
    /\ \E r \in db : r.username = username
    /\ db' = { r \in db : r.username # username }
    /\ UNCHANGED <<nextId, sp, clock, ticks, lg, held, req, tok, ver>>

\* UPDATE users SET hashed_password = h WHERE username = u: hashed_password
\* is a plain String column, so a row can hold a value that is no bcrypt hash
\* (an import from another system, a truncated or emptied value)
EnvSetHash(username, hashed_password) ==
    /\ \E r \in db : r.username = username /\ r.hashed_password # hashed_password
    /\ db' = { IF r.username = username
               THEN [r EXCEPT !.hashed_password = hashed_password] ELSE r
               : r \in db }
    /\ UNCHANGED <<nextId, sp, clock, ticks, lg, held, req, tok, ver>>

----------------------------------------------------------------------------
(* POST /login: login -> authenticate_user -> create_token_for_user *)

\* authenticate_user: the user row, or None for an unknown user or a wrong
\* password
authenticate_user_unverified(rows, username, password) ==
    get_user_by_username(rows, username)

authenticate_user_active_only(rows, username, password) ==
    LET user == get_user_by_username(rows, username)
    IN IF user = None THEN None
       ELSE IF ~verify_password(password, user.hashed_password) THEN None
       ELSE IF ~user.is_active THEN None
       ELSE user

authenticate_user(rows, username, password) ==
    LET user == get_user_by_username(rows, username)
    IN IF user = None THEN None
       ELSE IF ~verify_password(password, user.hashed_password) THEN None
       ELSE user

\* authenticate_user lets the exception of verify_password through
authenticate_user_raises(rows, username, password) ==
    LET user == get_user_by_username(rows, username)
    IN user # None /\ verify_password_raises(password, user.hashed_password)

\* HTTPException(401, "Invalid username or password"): InvalidCredentials
LoginFailure ==
    [status |-> 401, detail |-> "Invalid username or password"]

\* the body login returns; the access_token itself is kept in held
LoginSuccess(username, is_admin) ==
    [status |-> 200, token_type |-> "bearer", username |-> username,
     is_admin |-> is_admin, message |-> "Login successful!"]

\* login up to the first clock read of create_token_for_user
LoginAuthenticate(username, password) ==
    /\ lg.pc = "idle"
    /\ LET user == authenticate_user(db, username, password)
       IN IF authenticate_user_raises(db, username, password)
          THEN lg' = [pc |-> "done", in |-> <<username, password>>,
                      resp |-> InternalServerError]
          ELSE IF user = None
          THEN lg' = [pc |-> "done", in |-> <<username, password>>,
                      resp |-> LoginFailure]
          ELSE lg' = [pc |-> "issuing", in |-> <<username, password>>,
                      username |-> user.username, is_admin |-> user.is_admin,
                      iat |-> clock]
    /\ UNCHANGED <<db, nextId, sp, clock, ticks, held, req, tok, ver>>

\* create_access_token and the response: the client now holds the token
LoginIssue ==
    /\ lg.pc = "issuing"
    /\ held' = create_token_for_user(lg.username, lg.is_admin, lg.iat, clock)
    /\ lg' = [pc |-> "done", in |-> lg.in,
              resp |-> LoginSuccess(lg.username, lg.is_admin)]
    /\ UNCHANGED <<db, nextId, sp, clock, ticks, req, tok, ver>>

\* the response is delivered
LoginReturnTouchesRow ==
    /\ lg.pc = "done"
    /\ lg' = [pc |-> "idle"]
    /\ db' = { IF r.username = lg.in[1]
               THEN [r EXCEPT !.hashed_password = hash_password(lg.in[2], "s2")]
               ELSE r : r \in db }
    /\ UNCHANGED <<nextId, sp, clock, ticks, held, req, tok, ver>>

LoginReturn ==
    /\ lg.pc = "done"
    /\ lg' = [pc |-> "idle"]
    /\ UNCHANGED <<db, nextId, sp, clock, ticks, held, req, tok, ver>>

----------------------------------------------------------------------------
(* GET /me and GET /admin: get_current_user, get_current_admin_user *)

\* an Authorization header value, split at its spaces: the first part is a
\* string, the later parts are tokens
Header(parts) == [parts |-> parts]

\* the header values a client sends, given the token it holds
Headers(token) ==
    { None,
      Header(<<"">>),
      Header(<<"Basic", RawToken("xyz")>>),
      Header(<<"Bearer">>),
      Header(<<"Bearer", RawToken("")>>) }
    \cup (IF token = None THEN {}
          ELSE { Header(<<"Bearer", t>>) : t \in Variants(token) }
               \cup { Header(<<"bearer", token>>),
                      Header(<<"Bearer", token, RawToken("extra")>>),
                      Header(<<"Bearer", RawToken(""), token>>) })

\* "not authorization": None and the empty string are both falsy
HeaderMissing(authorization) ==
    authorization = None \/ authorization.parts = <<"">>

\* authorization.startswith("Bearer ")
StartsWithBearer(authorization) ==
    authorization.parts[1] = "Bearer" /\ Len(authorization.parts) >= 2

\* authorization.split(" ")[1]
ExtractToken(authorization) == authorization.parts[2]

Unauthorized(detail) == [status |-> 401, detail |-> detail]

Forbidden == [status |-> 403, detail |-> "Admin privileges required"]

\* the 200 body of /me and of /admin
Profile(endpoint, user) ==
    [status |-> 200, endpoint |-> endpoint, username |-> user.username]

\* the request ended with an HTTPException raised in state r.pc of the chain
FailedSwallowed(r, response) == [pc |-> "idle"]

Failed(r, response) ==
    [pc |-> "Failed", at |-> r.pc, endpoint |-> r.endpoint, resp |-> response]

\* a client sends a protected request
AuthStart(endpoint, header) ==
    /\ req.pc = "idle"
    /\ req' = [pc |-> "NoCredential", endpoint |-> endpoint, header |-> header]
    /\ UNCHANGED <<db, nextId, sp, clock, ticks, lg, held, tok, ver>>

\* get_current_user: the two header checks and the split
AuthExtract ==
    /\ req.pc = "NoCredential"
    /\ req' = IF HeaderMissing(req.header)
              THEN Failed(req, Unauthorized("Authorization header required"))
              ELSE IF ~StartsWithBearer(req.header)
              THEN Failed(req, Unauthorized("Invalid authorization header format"))
              ELSE [pc |-> "CredentialPresent", endpoint |-> req.endpoint,
                    token |-> ExtractToken(req.header)]
    /\ UNCHANGED <<db, nextId, sp, clock, ticks, lg, held, tok, ver>>

\* "if not username": the empty subject is falsy
SubjectFalsy(payload) == payload.sub = ""

\* get_current_user: verify_token, then the check of the subject
AuthVerify ==
    /\ req.pc = "CredentialPresent"
    /\ LET payload == verify_token(req.token, clock)
       IN req' = IF payload = None
                 THEN Failed(req, Unauthorized("Invalid or expired token"))
                 ELSE IF SubjectFalsy(payload)
                 THEN Failed(req, Unauthorized("Invalid token payload"))
                 ELSE [pc |-> "TokenValid", endpoint |-> req.endpoint,
                       payload |-> payload]
    /\ UNCHANGED <<db, nextId, sp, clock, ticks, lg, held, tok, ver>>

\* get_current_user: get_user_by_username(db, username)
AuthResolve ==
    /\ req.pc = "TokenValid"
    /\ LET user == get_user_by_username(db, req.payload.sub)
       IN req' = IF user = None
                 THEN Failed(req, Unauthorized("User not found"))
                 ELSE [pc |-> "UserResolved", endpoint |-> req.endpoint,
                       payload |-> req.payload, user |-> user]
    /\ UNCHANGED <<db, nextId, sp, clock, ticks, lg, held, tok, ver>>

\* get_current_admin_user: the admin check reads the resolved user only
AdminAllowedByToken(current_user, payload) == payload.admin

AdminAllowed(current_user, payload) == current_user.is_admin

\* the request ended with the endpoint's 200 body for the resolved user
Authorized(r, state) ==
    [pc |-> state, endpoint |-> r.endpoint, payload |-> r.payload,
     user |-> r.user, resp |-> Profile(r.endpoint, r.user)]

\* get_me, or get_current_admin_user and admin_only
AuthEndpoint ==
    /\ req.pc = "UserResolved"
    /\ req' = IF req.endpoint = "/me"
              THEN Authorized(req, "AuthorizedUser")
              ELSE IF ~AdminAllowed(req.user, req.payload)
              THEN Failed(req, Forbidden)
              ELSE Authorized(req, "AuthorizedAdmin")
    /\ UNCHANGED <<db, nextId, sp, clock, ticks, lg, held, tok, ver>>

\* the response is delivered
AuthReturn ==
    /\ req.pc \in {"Failed", "AuthorizedUser", "AuthorizedAdmin"}
    /\ req' = [pc |-> "idle"]
    /\ UNCHANGED <<db, nextId, sp, clock, ticks, lg, held, tok, ver>>

----------------------------------------------------------------------------
(* The clock *)

TickSteps == {1, ACCESS_TOKEN_EXPIRE_MINUTES}

Tick(d) ==
    /\ ticks < MaxTicks
    /\ clock' = clock + d
    /\ ticks' = ticks + 1
    /\ UNCHANGED <<db, nextId, sp, lg, held, req, tok, ver>>

----------------------------------------------------------------------------
(* Calls into the token library, as a caller of jwt_utils makes them *)

\* the ttl arguments tried: none given, zero, and one minute
Deltas == {None, [minutes |-> 0], [minutes |-> 1]}

\* the ttl the caller asked for
RequestedTtl(expires_delta) ==
    IF expires_delta = None THEN ACCESS_TOKEN_EXPIRE_MINUTES
    ELSE expires_delta.minutes

\* create_token_for_user, first half: token_data is built, iat read
TokBegin(username, is_admin) ==
    /\ tok.pc \in {"none", "issued"}
    /\ tok' = [pc |-> "issuing", data |-> token_data(username, is_admin, clock),
               delta |-> None, issuedAt |-> clock,
               for |-> [sub |-> username, admin |-> is_admin]]
    /\ ver' = None
    /\ UNCHANGED <<db, nextId, sp, clock, ticks, lg, held, req>>

\* create_token_for_user, second half: create_access_token(token_data)
TokEncode ==
    /\ tok.pc = "issuing"
    /\ tok' = [pc |-> "issued", delta |-> tok.delta, issuedAt |-> tok.issuedAt,
               for |-> tok.for,
               token |-> create_access_token(tok.data, tok.delta, clock)]
    /\ UNCHANGED <<db, nextId, sp, clock, ticks, lg, held, req, ver>>

\* create_access_token(data, expires_delta) called directly
TokCreate(data, expires_delta) ==
    /\ tok.pc \in {"none", "issued"}
    /\ tok' = [pc |-> "issued", delta |-> expires_delta, issuedAt |-> clock,
               for |-> None,
               token |-> create_access_token(data, expires_delta, clock)]
    /\ ver' = None
    /\ UNCHANGED <<db, nextId, sp, clock, ticks, lg, held, req>>

\* the payloads a direct caller passes: with and without a subject
DirectData ==
    { token_data(u, a, clock) : u \in {"alice", ""}, a \in BOOLEAN }
    \cup { [admin |-> FALSE, iat |-> clock, iss |-> ISSUER] }

\* verify_token(token) on the issued token or a variant of it
TokVerify(token) ==
    /\ tok.pc = "issued"
    /\ token \in Variants(tok.token)
    /\ ver' = [token |-> token, now |-> clock,
               genuine |-> (token = tok.token), for |-> tok.for,
               issuedAt |-> tok.issuedAt, ttl |-> RequestedTtl(tok.delta),
               reason |-> verify_reason(token, clock),
               payload |-> verify_token(token, clock)]
    /\ UNCHANGED <<db, nextId, sp, clock, ticks, lg, held, req, tok>>

----------------------------------------------------------------------------

Init ==
    /\ db = {}
    /\ nextId = 1
    /\ sp = [p \in Procs |-> SpIdle]
    /\ clock = 0
    /\ ticks = 0
    /\ lg = [pc |-> "idle"]
    /\ held = None
    /\ req = [pc |-> "idle"]
    /\ tok = [pc |-> "none"]
    /\ ver = None

NextSignup ==
    \/ \E p \in Procs, in \in SignupInputs, salt \in Salts : SignupQuery(p, in, salt)
    \/ \E p \in Procs : SignupCommit(p)
    \/ \E p \in Procs : SignupReturn(p)

SpecSignup == Init /\ [][NextSignup]_vars

Endpoints == {"/me", "/admin"}

\* The service as one worker serving one request at a time, while the clock
\* runs and rows are changed from outside between any two of its steps.
Worker == CHOOSE p \in Procs : \A q \in Procs : p <= q

Quiet == sp[Worker].pc = "idle" /\ lg.pc = "idle" /\ req.pc = "idle"

PipelineSignups ==
    { <<"alice", "a@x.io", "pw1">>, <<"", "c@x.io", "pw1">> }

PipelinePasswords == {"pw1", "bad"}

Next ==
    \/ Quiet /\ \E in \in PipelineSignups : SignupQuery(Worker, in, "s1")
    \/ SignupCommit(Worker)
    \/ SignupReturn(Worker)
    \/ \E u \in Usernames, flag \in BOOLEAN : EnvSetAdmin(u, flag)
    \/ \E u \in Usernames : EnvDeleteUser(u)
    \/ Quiet /\ \E u \in Usernames, pw \in PipelinePasswords : LoginAuthenticate(u, pw)
    \/ LoginIssue
    \/ LoginReturn
    \/ Quiet /\ \E e \in Endpoints, h \in Headers(held) : AuthStart(e, h)
    \/ AuthExtract
    \/ AuthVerify
    \/ AuthResolve
    \/ AuthEndpoint
    \/ AuthReturn
    \/ \E d \in TickSteps : Tick(d)

Spec == Init /\ [][Next]_vars

\* The service with users deactivated and reactivated from outside; the
\* clock stands still, no handler's use of is_active involves the time
NextActive ==
    \/ Quiet /\ \E in \in PipelineSignups : SignupQuery(Worker, in, "s1")
    \/ SignupCommit(Worker)
    \/ SignupReturn(Worker)
    \/ \E u \in Usernames, flag \in BOOLEAN : EnvSetAdmin(u, flag)
    \/ \E u \in Usernames, flag \in BOOLEAN : EnvSetActive(u, flag)
    \/ \E u \in Usernames : EnvDeleteUser(u)
    \/ Quiet /\ \E u \in Usernames, pw \in PipelinePasswords : LoginAuthenticate(u, pw)
    \/ LoginIssue
    \/ LoginReturn
    \/ Quiet /\ \E e \in Endpoints, h \in Headers(held) : AuthStart(e, h)
    \/ AuthExtract
    \/ AuthVerify
    \/ AuthResolve
    \/ AuthEndpoint
    \/ AuthReturn

SpecActive == Init /\ [][NextActive]_vars

\* The credential store with rows whose hash was written from outside:
\* signups and logins of one worker, and hashes replaced by malformed values
NextPassword ==
    \/ \E in \in SignupInputs : SignupQuery(Worker, in, "s1")
    \/ SignupCommit(Worker)
    \/ SignupReturn(Worker)
    \/ \E u \in Usernames, h \in MalformedHashes : EnvSetHash(u, h)
    \/ \E u \in Usernames, pw \in PipelinePasswords : LoginAuthenticate(u, pw)
    \/ LoginIssue
    \/ LoginReturn

SpecPassword == Init /\ [][NextPassword]_vars

NextToken ==
    \/ \E d \in TickSteps : Tick(d)
    \/ \E u \in Usernames, a \in BOOLEAN : TokBegin(u, a)
    \/ TokEncode
    \/ \E data \in DirectData, delta \in Deltas : TokCreate(data, delta)
    \/ \E token \in Variants(IF tok.pc = "issued"
                              THEN tok.token ELSE RawToken("")) : TokVerify(token)

SpecToken == Init /\ [][NextToken]_vars

----------------------------------------------------------------------------
(* Claims about /signup, checked under SpecSignup *)

Collide(in1, in2) == in1[1] = in2[1] \/ in1[2] = in2[2]

Succeeded(p) == sp[p].pc = "done" /\ sp[p].result.status = 200

\* C1 (as claimed): of two signups with the same username (or the same email)
\* that have both been answered, at most one succeeded and each got either
\* the success response or the DuplicateCredential response, never another
\* outcome.
C1_RaceOneSuccessOneDuplicate ==
    \A p, q \in Procs :
        (p # q /\ sp[p].pc = "done" /\ sp[q].pc = "done"
              /\ Collide(sp[p].in, sp[q].in))
        => /\ ~(Succeeded(p) /\ Succeeded(q))
           /\ sp[p].result.status \in {200, 400}
           /\ ~Succeeded(p) => sp[p].result = SignupDuplicate

\* C2: no two rows of the users table share a username, and no two share an
\* email.
C2_UsernameEmailUnique ==
    \A r1, r2 \in db :
        r1 # r2 => r1.username # r2.username /\ r1.email # r2.email

\* C2 witness: two users are stored and the table has refused a colliding insert
C2_Witness ==
    /\ Cardinality(db) >= 2
    /\ \E p \in Procs : sp[p].pc = "done" /\ sp[p].result = InternalServerError

\* C3: a signup that starts while a user with its username or its email is
\* stored is answered DuplicateCredential at once, and the table and the id
\* sequence are left as they were, with exactly one row holding a colliding
\* username.
C3_DuplicateSignupRejected ==
    [][\A p \in Procs :
         (sp[p].pc = "idle" /\ sp'[p].pc # "idle"
            /\ \E r \in db : r.username = sp'[p].in[1] \/ r.email = sp'[p].in[2])
         => /\ sp'[p].pc = "done"
            /\ sp'[p].result = SignupDuplicate
            /\ db' = db
            /\ nextId' = nextId
            /\ Cardinality(QueryByUsername(db', sp'[p].in[1])) <= 1]_vars

\* C3 witness: "alice" signed up twice; the second request was refused and one
\* alice is stored
C3_Witness ==
    \E p \in Procs :
        /\ sp[p].pc = "done"
        /\ sp[p].result = SignupDuplicate
        /\ sp[p].in[1] = "alice"
        /\ Cardinality(QueryByUsername(db, "alice")) = 1

----------------------------------------------------------------------------
(* Claims about the token library, checked under SpecToken *)

\* C4 (as claimed): a genuine token verified at or after issuedAt + ttl is
\* never accepted and is refused as Expired; this covers ttl = 0 checked at
\* issuedAt and the default ttl checked 31 minutes after issue.
C4_ExpiredAtOrAfterExpiry ==
    (ver # None /\ ver.genuine /\ ver.now >= ver.issuedAt + ver.ttl)
    => (ver.payload = None /\ ver.reason = "Expired")

\* C13 (as claimed): a login for a user whose stored hash is malformed
\* (empty, or in no recognized format) is answered with the 401 of
\* InvalidCredentials, never with an unhandled error.
C13_MalformedHashIsInvalidCredentials ==
    [][(lg.pc = "idle" /\ lg'.pc # "idle"
          /\ \E r \in db : /\ r.username = lg'.in[1]
                           /\ r.hashed_password \in MalformedHashes)
       => (lg'.pc = "done" /\ lg'.resp = LoginFailure)]_vars

\* C14: a signup that answers 200 has stored exactly one new row, with the
\* username and email supplied, is_admin false, is_active true, the id the
\* sequence assigned and a bcrypt hash of the supplied password, and the
\* response describes that row.
C14_SignupPersistsPlainUser ==
    [][\A p \in Procs :
        (sp[p].pc = "hashed" /\ sp'[p].pc = "done"
            /\ sp'[p].result.status = 200)
        => \E r \in db' \ db :
            /\ db' = db \cup {r}
            /\ r.id = nextId
            /\ r.username = sp[p].in[1] /\ r.email = sp[p].in[2]
            /\ r.is_admin = FALSE /\ r.is_active = TRUE
            /\ \E salt \in Salts :
                  r.hashed_password = hash_password(sp[p].in[3], salt)
            /\ verify_password(sp[p].in[3], r.hashed_password)
            /\ sp'[p].result = SignupCreated(r)]_vars

\* C14 witness: a signup has answered 200 and its row is stored
C14_Witness ==
    \E p \in Procs :
        /\ sp[p].pc = "done" /\ sp[p].result.status = 200
        /\ \E r \in db : /\ r.id = sp[p].result.user_id
                         /\ r.username = sp[p].in[1]
                         /\ ~r.is_admin /\ r.is_active
                         /\ verify_password(sp[p].in[3], r.hashed_password)

\* C11: a token made by create_token_for_user for (u, a) at time t0 and
\* verified unaltered at any time from t0 up to but not including its exp is
\* accepted, and the claims returned carry sub = u, admin = a and the fixed
\* issuer.
C11_IssuedTokenVerifies ==
    (ver # None /\ ver.genuine /\ ver.for # None
        /\ ver.issuedAt <= ver.now /\ ver.now < ver.token.payload.exp)
    => /\ ver.payload # None
       /\ ver.payload.sub = ver.for.sub
       /\ ver.payload.admin = ver.for.admin
       /\ ver.payload.iss = ISSUER

\* C11 witness: alice's admin token was verified some time after its issue
\* and accepted
C11_Witness ==
    /\ ver # None /\ ver.genuine /\ ver.for = [sub |-> "alice", admin |-> TRUE]
    /\ ver.issuedAt < ver.now /\ ver.now < ver.token.payload.exp
    /\ ver.payload # None

\* C12: verify_token returns claims only for a token that declares the
\* expected algorithm and whose signature is the one the server's key gives
\* for its payload; an altered signature, another key and another algorithm
\* are all refused.
C12_OnlyServerSignedTokensAccepted ==
    (ver # None /\ ver.payload # None)
    => /\ ver.token.alg = ALGORITHM
       /\ ver.token.sig = Sign(SECRET_KEY, ALGORITHM, ver.token.payload)
       /\ ver.genuine

\* C12 witness: an unexpired token whose signature was altered was refused
C12_Witness ==
    /\ ver # None /\ ~ver.genuine /\ ~HasKey(ver.token, "raw")
    /\ ver.token.alg = ALGORITHM /\ ver.token.sig = <<"tampered">>
    /\ ver.now < ver.token.payload.exp
    /\ ver.payload = None /\ ver.reason = "SignatureInvalid"

\* C15 (as claimed): every issued token has exp = iat + ttl for the ttl asked
\* for, zero included, with iat the time of the issue call.
C15_ExpIsIatPlusTtl ==
    (tok.pc = "issued" /\ HasKey(tok.token.payload, "iat"))
    => /\ tok.token.payload.iat = tok.issuedAt
       /\ tok.token.payload.exp = tok.token.payload.iat + RequestedTtl(tok.delta)

----------------------------------------------------------------------------
(* Claims about the request pipeline, checked under Spec *)

\* the token is one this service signed and, by the rule "valid only strictly
\* before expiresAt", still valid at time now
ValidAt(token, now) ==
    /\ ~HasKey(token, "raw")
    /\ token.alg = ALGORITHM
    /\ token.sig = Sign(SECRET_KEY, token.alg, token.payload)
    /\ now < token.payload.exp

\* C5 (as claimed): an admin-only request is authorized only if the token's
\* admin claim is true and the resolved user's persisted is_admin is true.
C5_AdminNeedsTokenAndPersistedFlag ==
    req.pc = "AuthorizedAdmin"
    => (req.payload.admin = TRUE /\ req.user.is_admin = TRUE)

\* C6: the user an admin-only request resolves is the row stored at that
\* moment, and when that row's is_admin is false the request ends 403
\* "Admin privileges required", whatever admin claim the token carries; so
\* no request is ever authorized as admin for a user resolved as non-admin.
C6_PersistedFlagIsAuthoritative ==
    [][/\ (req.pc = "TokenValid" /\ req'.pc = "UserResolved")
          => (req'.user \in db /\ req'.user.username = req.payload.sub)
       /\ (req.pc = "UserResolved" /\ req' # req /\ req.endpoint = "/admin"
             /\ ~req.user.is_admin)
          => (req'.pc = "Failed" /\ req'.resp = Forbidden)
       /\ req'.pc = "AuthorizedAdmin" => req'.user.is_admin]_vars

\* C6 witness: the client's token, issued while the user was admin and not yet
\* expired, carries admin = true; the user has since been revoked, and the
\* /admin request made with it was answered 403
C6_Witness ==
    /\ req.pc = "Failed" /\ req.at = "UserResolved" /\ req.resp = Forbidden
    /\ held # None /\ held.payload.admin = TRUE /\ clock < held.payload.exp
    /\ \E r \in db : r.username = held.payload.sub /\ ~r.is_admin

\* C7: a login for a username that is not stored and a login with a wrong
\* password for a stored username are both answered with the one response
\* 401 "Invalid username or password".
C7_LoginFailuresIndistinguishable ==
    [][(lg.pc = "idle" /\ lg'.pc # "idle")
       => LET username == lg'.in[1]
              password == lg'.in[2]
              unknown == QueryByUsername(db, username) = {}
              wrong == \E r \in QueryByUsername(db, username) :
                          ~verify_password(password, r.hashed_password)
          IN (unknown \/ wrong)
             => (lg'.pc = "done" /\ lg'.resp = LoginFailure)]_vars

\* C7 witness: a stored user's login with a wrong password was answered with
\* the failure response
C7_Witness ==
    /\ lg.pc = "done" /\ lg.resp = LoginFailure
    /\ \E r \in db : r.username = lg.in[1]
                     /\ ~verify_password(lg.in[2], r.hashed_password)

\* a header value literally of the form "Bearer <token>"
LiterallyBearer(authorization) ==
    /\ authorization # None
    /\ Len(authorization.parts) = 2
    /\ authorization.parts[1] = "Bearer"
    /\ authorization.parts[2] # RawToken("")

\* C8 (as claimed): with no header the request fails MissingAuthorization,
\* with any header value not literally "Bearer <token>" it fails
\* MalformedAuthorization, and both are decided at the header check, before
\* any token is verified. (The empty header value, which the code counts as
\* no header, is allowed either answer here.)
C8_HeaderMustBeLiterallyBearer ==
    [][(req.pc = "NoCredential" /\ req' # req)
       => /\ req.header = None
             => req' = Failed(req, Unauthorized("Authorization header required"))
          /\ (req.header # None /\ req.header.parts = <<"">>)
             => (req'.pc = "Failed" /\ req'.at = "NoCredential")
          /\ (req.header # None /\ req.header.parts # <<"">>
                /\ ~LiterallyBearer(req.header))
             => req' = Failed(req, Unauthorized("Invalid authorization header format"))]_vars

\* C9 (as claimed): a request passes token verification only with a token
\* valid at that time, the user it resolves is the stored row whose username
\* is the token's subject, and when no such row is stored it fails
\* PrincipalNotFound.
C9_PrincipalValidAndStored ==
    [][/\ (req.pc = "CredentialPresent" /\ req'.pc = "TokenValid")
          => ValidAt(req.token, clock)
       /\ (req.pc = "TokenValid" /\ req' # req)
          => IF QueryByUsername(db, req.payload.sub) = {}
             THEN req' = Failed(req, Unauthorized("User not found"))
             ELSE /\ req'.pc = "UserResolved"
                  /\ req'.user \in db
                  /\ req'.user.username = req.payload.sub]_vars

\* C10 (as claimed): every request refused at token verification gets the
\* one response 401 "Invalid or expired token".
C10_VerificationFailuresUniform ==
    (req.pc = "Failed" /\ req.at = "CredentialPresent")
    => req.resp = Unauthorized("Invalid or expired token")

\* a step of one of the service's handlers: each of them moves its request,
\* while a change made from outside and the passing of time move none
ServiceStep == sp' # sp \/ lg' # lg \/ req' # req

\* the stored row was made by a signup with this password
SignedUpWith(r, password) ==
    \E salt \in Salts : r.hashed_password = hash_password(password, salt)

ChainSuccessors(pc) ==
    CASE pc = "idle" -> {"NoCredential"}
      [] pc = "NoCredential" -> {"CredentialPresent", "Failed"}
      [] pc = "CredentialPresent" -> {"TokenValid", "Failed"}
      [] pc = "TokenValid" -> {"UserResolved", "Failed"}
      [] pc = "UserResolved" -> {"AuthorizedUser", "AuthorizedAdmin", "Failed"}
      [] OTHER -> {"idle"}

\* C17: a protected request passes NoCredential, CredentialPresent,
\* TokenValid, UserResolved and then AuthorizedUser or AuthorizedAdmin in
\* this order and skips none; a failure ends the request in the state it
\* was raised in and nothing follows it but the delivery of that one
\* response; the user is looked up only for a verified token, the admin
\* check runs only on a resolved user, and the request ends with exactly one
\* of a 200 for the resolved user or one failure.
C17_ChainOrder ==
    [][(req' # req) =>
        /\ req'.pc \in ChainSuccessors(req.pc)
        /\ req'.pc = "Failed" =>
              /\ req'.at = req.pc
              /\ req'.resp.status \in {401, 403}
              /\ req'.resp = Unauthorized("User not found")
                    => req.pc = "TokenValid"
              /\ req'.resp = Forbidden => req.pc = "UserResolved"
        /\ req'.pc = "TokenValid" =>
              req'.payload = verify_token(req.token, clock)
        /\ req'.pc = "UserResolved" =>
              /\ req'.payload = req.payload
              /\ req'.user \in QueryByUsername(db, req.payload.sub)
        /\ req'.pc \in {"AuthorizedUser", "AuthorizedAdmin"} =>
              /\ req'.user = req.user
              /\ req'.resp = Profile(req.endpoint, req.user)
              /\ (req'.pc = "AuthorizedAdmin") = (req.endpoint = "/admin")
       ]_vars

\* C17 witness: a request to /admin has passed the whole chain
C17_Witness ==
    /\ req.pc = "AuthorizedAdmin" /\ req.endpoint = "/admin"
    /\ req.user.is_admin /\ req.resp.status = 200

\* C18: every step of /login, /me and /admin, successful or not, leaves the
\* users table and its id sequence as they were; among the steps of the
\* service only the commit of a successful signup changes the table, and it
\* adds exactly one row and leaves every stored row as it was, so no step of
\* the service changes a stored row's username or hashed_password.
C18_OnlySignupWritesUsers ==
    [][/\ (lg' # lg \/ req' # req \/ held' # held)
          => (db' = db /\ nextId' = nextId)
       /\ (ServiceStep /\ db' # db)
          => \E p \in Procs, r \in db' :
                /\ sp[p].pc = "hashed" /\ sp'[p].pc = "done"
                /\ sp'[p].result = SignupCreated(r)
                /\ r \notin db /\ db' = db \cup {r}
                /\ \A q \in db : q.id # r.id
       /\ (sp' # sp /\ \A p \in Procs : sp'[p].pc = "done"
                                          => sp'[p].result.status # 200)
          => db' = db
       ]_vars

\* C18 witness: after a login and a request authorized as admin the table
\* still holds the user's row with the username and hash the signup stored
C18_Witness ==
    /\ held # None /\ ~HasKey(held, "raw")
    /\ req.pc = "AuthorizedAdmin" /\ req.user.username = held.payload.sub
    /\ \E r \in db : /\ r.id = req.user.id
                     /\ r.username = held.payload.sub
                     /\ SignedUpWith(r, "pw1")

\* the row, and the table, with is_active set
Activated(r) == [r EXCEPT !.is_active = TRUE]

ActivatedRows(rows) == { Activated(r) : r \in rows }

\* C19: the outcome of every step of /login, /me and /admin is the one the
\* same step would have if every user were active: a deactivated user logs
\* in with the right password, is resolved from a token, and is authorized,
\* as admin too when the row says is_admin.
C19_IsActiveIgnored ==
    [][/\ (lg.pc = "idle" /\ lg'.pc # "idle")
          => LET b == authenticate_user(ActivatedRows(db), lg'.in[1], lg'.in[2])
             IN IF b = None
                THEN lg'.pc = "done" /\ lg'.resp = LoginFailure
                ELSE /\ lg'.pc = "issuing"
                     /\ lg'.username = b.username /\ lg'.is_admin = b.is_admin
       /\ (req.pc = "TokenValid" /\ req'.pc # req.pc)
          => LET b == get_user_by_username(ActivatedRows(db), req.payload.sub)
             IN IF b = None THEN req'.pc = "Failed"
                ELSE req'.pc = "UserResolved" /\ Activated(req'.user) = b
       /\ (req.pc = "UserResolved" /\ req'.pc # req.pc)
          => LET b == Activated(req.user)
             IN IF req.endpoint = "/me"
                THEN /\ req'.pc = "AuthorizedUser"
                     /\ req'.resp = Profile(req.endpoint, b)
                ELSE IF b.is_admin
                THEN /\ req'.pc = "AuthorizedAdmin"
                     /\ req'.resp = Profile(req.endpoint, b)
                ELSE req'.pc = "Failed" /\ req'.resp = Forbidden
       ]_vars

\* C19 witness: a deactivated user has been authorized as admin
C19_Witness ==
    /\ req.pc = "AuthorizedAdmin"
    /\ ~req.user.is_active /\ req.user.is_admin
    /\ req.resp.status = 200

====
